---- MODULE Spec2Model ----
(***************************************************************************)
(* The Vani TTS application: the playback controller and the synthesis    *)
(* path of src/App.tsx, and the speech service of                          *)
(* src/services/geminiService.ts.                                          *)
(*                                                                         *)
(* The specifications share the variables:                                 *)
(*  - Spec: the playback controller, playing items it is handed;           *)
(*  - SpecLive: Spec where promises settle, the clock of a running         *)
(*    context advances and events are delivered;                           *)
(*  - SpecCompile: one generateSpeech call per input, up to its request;   *)
(*  - SpecTTS: text, voices, the Speak button, the service's answers and   *)
(*    the playback generateTTS starts;                                     *)
(*  - SpecPresets: SpecTTS with the preset manager;                        *)
(*  - SpecCall: generateTTS called with and without text;                  *)
(*  - SpecSettings: selectors, sliders, voice cloner and preset manager;   *)
(*  - SpecHistory: the synthesis path with the history list, opened on a   *)
(*    stored history;                                                      *)
(*  - SpecIdle: the synthesis path with the playback controls and the      *)
(*    history list's Play, with progress as in SpecLive;                   *)
(*  - SpecWav: the WAV download of a payload.                              *)
(*                                                                         *)
(* The component keeps the playback status in React state, the audio       *)
(* context and the current buffer source in refs.  Handlers run to their   *)
(* first await in one step; what follows an await is a continuation that   *)
(* runs in a later step, after any number of other handlers.               *)
(*                                                                         *)
(* The Web Audio objects are modelled by what the handlers can observe:    *)
(*  - the context has a state (running / suspended) that changes when a    *)
(*    queued resume() / suspend() request completes, in request order;     *)
(*    the promise of the request is settled in the same task;              *)
(*  - a buffer source is unused, started, stopping (stop() called, the     *)
(*    "ended" event not yet delivered) or ended; its position advances     *)
(*    with the context clock, so only while the context is running.        *)
(***************************************************************************)
EXTENDS Integers, Sequences, FiniteSets, TLC

\* ---------------------------------------------------------------- bounds
\* Handles (buffer sources) created over a run.
MaxHandles == 2
\* Handler calls (handlePlayAudio, togglePauseResume) that are suspended at
\* an await at the same time.
MaxPending == 2
\* Length of every decoded buffer, in clock ticks.
BufLen == 2
\* Cloned voices created over a run.
MaxVoices == 1
\* Presets stored at the same time.
MaxPresets == 1
\* generateSpeech calls over a run.
MaxCalls == 1

Handles == 1..MaxHandles
NoHandle == 0

\* The message handlePlayAudio's catch block shows.
PlaybackFailed == "Playback failed."

VARIABLES
  playbackStatus,    \* useState: "stopped" | "playing" | "paused"
  audioContextRef,   \* useRef: "null" | "ctx"
  ctxState,          \* AudioContext.state: "none" | "running" | "suspended"
  ctxOps,            \* resume()/suspend() requests not yet completed, in order
  decodes,           \* handlePlayAudio calls suspended at await decodeAudioData:
                     \* how many, by the handle that was current at the call
  activeSourceRef,   \* useRef: NoHandle or the current handle
  src,               \* handle -> "unused" | "started" | "stopping" | "ended"
  pos,               \* handle -> playback position, 0..BufLen
  onended,           \* handle -> whether its onended callback is set
  error,             \* useState: "null" or the message shown
  propagated,        \* whether the last handler call let an exception escape
  lastOp,            \* label of the last step taken
  prevStatus,        \* playbackStatus before the last step
  \* --- synthesis: the settings, the voices and what was generated
  text,              \* useState: the text to speak
  language,          \* useState: Language
  accent,            \* useState: Accent
  voice,             \* useState: VoiceName, the prebuilt voice chosen
  speed,             \* useState, in hundredths (100 is 1.0)
  pitch,             \* useState, in hundredths
  volume,            \* useState, in hundredths
  isLoading,         \* useState
  history,           \* useState: TTSHistoryItem[], newest first
  presets,           \* useState: TTSPreset[]
  clonedVoices,      \* useState: ClonedVoice[]
  selectedClonedVoiceId,  \* useState: "null" or the id of a cloned voice
  lastAudioData,     \* useState: 0 (null) or the payload last generated
  download,          \* the bytes of the file last handed to downloadBlob
  hasApiKey,         \* useState
  \* --- the host page and the speech service
  aistudio,          \* whether window.aistudio exists
  keySelector,       \* openSelectKey() calls awaited and not yet settled
  voicesMade,        \* cloned voices created so far (ids are never reused)
  call,              \* <<>> or the arguments of the latest generateSpeech call
  sent,              \* <<>> or the latest request given to generateContent
  nCalls,            \* generateSpeech calls made
  nRequests,         \* generateContent requests issued
  tts,               \* <<>> or the generateTTS call suspended at an await
  response,          \* <<>> or what the latest generateContent call settled with
  failure,           \* "null" or the message generateTTS's catch block got
  errorClass         \* "none" or the branch the catch block took

\* The playback controller's variables.
audioVars == <<playbackStatus, audioContextRef, ctxState, ctxOps, decodes,
               activeSourceRef, src, pos, onended, propagated>>

playVars == <<audioVars, prevStatus>>

\* The settings a preset stores.
settingVars == <<language, accent, voice, speed, pitch, volume>>

\* The rest of the component's state, the host page and the service.
appVars == <<text, settingVars, isLoading, history, presets, clonedVoices,
             selectedClonedVoiceId, lastAudioData, download, hasApiKey, aistudio,
             keySelector, voicesMade, call, sent, nCalls, nRequests,
             tts, response, failure, errorClass>>

vars == <<playVars, error, lastOp, appVars>>

\* A request queued on the context: op is what was requested, cont is the
\* code that awaits it ("none": initAudio does not await its resume()).
\* prev is the handle that was current when a handlePlayAudio was called.
CtxOp(op, cont, prev) == [op |-> op, cont |-> cont, prev |-> prev]

RECURSIVE CountCont(_, _)
CountCont(ops, cont) ==
  IF ops = <<>> THEN 0
  ELSE (IF Head(ops).cont = cont THEN 1 ELSE 0) + CountCont(Tail(ops), cont)

\* handlePlayAudio calls currently suspended (at either await).
RECURSIVE SumTo(_, _)
SumTo(f, n) == IF n < 0 THEN 0 ELSE f[n] + SumTo(f, n - 1)

PendingDecodes == SumTo(decodes, MaxHandles)
PendingPlays == CountCont(ctxOps, "play") + PendingDecodes
\* togglePauseResume calls currently suspended.
PendingToggles == CountCont(ctxOps, "pause") + CountCont(ctxOps, "resume")

UsedHandles == {h \in Handles : src[h] # "unused"}

\* The handle the next createBufferSource() yields.
NextHandle == Cardinality(UsedHandles) + 1

\* The step taken is labelled, and the status it started from recorded.
Did(label) ==
  /\ lastOp' = label
  /\ prevStatus' = playbackStatus

\* ------------------------------------------------------ types.ts and data

Languages == {"English", "Telugu", "English-Telugu Mixed"}

Accents == {"Neutral", "Telugu Accent", "Formal", "Cheerful", "Romantic",
            "Podcast", "Whisper"}

\* The prebuilt voices of the voice picker.
PrebuiltVoices == {"Kore", "Puck", "Charon", "Fenrir", "Zephyr"}

\* VOICE_METADATA[v].label, or the fallback label of generateSpeech when the
\* table has no entry for v.
VoiceLabel(v) ==
  CASE v = "Kore" -> "Anjali"
    [] v = "Zephyr" -> "Siri"
    [] v = "Puck" -> "Arjun"
    [] v = "Charon" -> "Venkat"
    [] v = "Fenrir" -> "Rajesh"
    [] OTHER -> "Assistant"

\* The id handleFileChange gives the n-th cloned voice: cloned_<uuid>.
ClonedId(n) == "cloned_" \o ToString(n)

ClonedIds == {ClonedId(n) : n \in 1..MaxVoices}

\* preset.voice.startsWith('cloned_'): every id of a cloned voice does, no
\* name of a prebuilt voice does.
StartsWithCloned(v) == v \in ClonedIds

\* The ClonedVoice record handleFileChange builds from the n-th upload.
ClonedVoice(n, mime) ==
  [id |-> ClonedId(n), audioData |-> "sample_" \o ToString(n),
   mimeType |-> mime]

\* String.prototype.trim on the texts of the model.
Trim(t) == IF t = " " THEN "" ELSE t

InitPlayback ==
  /\ playbackStatus = "stopped"
  /\ audioContextRef = "null"
  /\ ctxState = "none"
  /\ ctxOps = <<>>
  /\ decodes = [h \in 0..MaxHandles |-> 0]
  /\ activeSourceRef = NoHandle
  /\ src = [h \in Handles |-> "unused"]
  /\ pos = [h \in Handles |-> 0]
  /\ onended = [h \in Handles |-> FALSE]
  /\ error = "null"
  /\ propagated = FALSE
  /\ lastOp = "init"
  /\ prevStatus = "stopped"

\* The useState initial values of App, hasApiKey (which the mount effect
\* sets), history and lastAudioData apart; no stored presets or clones.
InitSettings ==
  /\ text = ""
  /\ language = "English"
  /\ accent = "Telugu Accent"
  /\ voice = "Kore"
  /\ speed = 100
  /\ pitch = 100
  /\ volume = 80
  /\ isLoading = FALSE
  /\ presets = <<>>
  /\ clonedVoices = <<>>
  /\ selectedClonedVoiceId = "null"
  /\ download = <<>>
  /\ keySelector = 0
  /\ voicesMade = 0
  /\ tts = <<>>
  /\ response = <<>>
  /\ failure = "null"
  /\ errorClass = "none"

\* The initial values of App with no stored history.
InitApp ==
  /\ InitSettings
  /\ history = <<>>
  /\ lastAudioData = 0

\* No call of the speech service has been made.
InitService ==
  /\ call = <<>>
  /\ sent = <<>>
  /\ nCalls = 0
  /\ nRequests = 0

\* The page is opened in a host without window.aistudio.
InitHost ==
  /\ aistudio = FALSE
  /\ hasApiKey = TRUE

Init ==
  /\ InitPlayback
  /\ InitApp
  /\ InitService
  /\ InitHost

\* ------------------------------------------------------- Web Audio objects

\* AudioBufferSourceNode.stop(): a started source stops sounding and its
\* "ended" event is owed; on a source that was stopped or has ended the call
\* changes nothing (and, depending on the browser, throws InvalidStateError).
StopSource(s, h) ==
  IF h # NoHandle /\ s[h] = "started" THEN [s EXCEPT ![h] = "stopping"] ELSE s

\* Whether stop() on handle h can throw: it was already stopped or has ended.
StopMayThrow(h) == h # NoHandle /\ src[h] \in {"stopping", "ended"}

\* A source that is scheduled on the output and neither stopped nor ended.
Active(h) == src[h] = "started" /\ pos[h] < BufLen

ActiveHandles == {h \in Handles : Active(h)}

\* ------------------------------------------------------------- initAudio

\* State of the context after initAudio: a context made here starts in the
\* state s0 the browser gives it; resume() is asynchronous, so a suspended
\* context is still suspended when initAudio returns.
initAudio_state(s0) == IF audioContextRef = "null" THEN s0 ELSE ctxState

\* Requests queued on the context after initAudio: a resume() nobody awaits
\* when the context is suspended.
initAudio_ops(s0) ==
  IF initAudio_state(s0) = "suspended"
    THEN Append(ctxOps, CtxOp("resume", "none", NoHandle))
    ELSE ctxOps

\* --------------------------------------------------------- handlePlayAudio

\* A catch block that reports the failure and leaves the status as it is.
handlePlayAudio_catch_keepsStatus ==
  /\ error' = PlaybackFailed
  /\ UNCHANGED playbackStatus
  /\ Did("playFailed")

\* The catch block of handlePlayAudio.
handlePlayAudio_catch ==
  /\ error' = PlaybackFailed
  /\ playbackStatus' = "stopped"
  /\ Did("playFailed")

\* The try block of handlePlayAudio up to await decodeAudioData:
\* decodeBase64 throws into the catch block, or the call suspends.
handlePlayAudio_try(throws, prev) ==
  IF throws
    THEN /\ handlePlayAudio_catch
         /\ UNCHANGED decodes
    ELSE /\ decodes' = [decodes EXCEPT ![prev] = @ + 1]
         /\ Did("play")
         /\ UNCHANGED <<playbackStatus, error>>

\* A handlePlayAudio that leaves the current handle running.
handlePlayAudio_halt_skipped(h) == src

\* The sources after handlePlayAudio has dealt with the current handle h:
\* try { h.onended = null; h.stop() } catch {}.
handlePlayAudio_halt(h) == StopSource(src, h)

\* handlePlayAudio(base64Data), called: initAudio, halt the current handle
\* with its callback removed, then either await ctx.resume() (context still
\* suspended) or enter the try block.
handlePlayAudio(throws, s0) ==
  /\ PendingPlays + PendingToggles < MaxPending
  /\ Cardinality(UsedHandles) + PendingPlays < MaxHandles
  /\ audioContextRef' = "ctx"
  /\ ctxState' = initAudio_state(s0)
  /\ src' = handlePlayAudio_halt(activeSourceRef)
  /\ onended' = IF activeSourceRef # NoHandle
                  THEN [onended EXCEPT ![activeSourceRef] = FALSE]
                  ELSE onended
  /\ propagated' = FALSE
  /\ UNCHANGED <<activeSourceRef, pos>>
  /\ IF initAudio_state(s0) = "suspended"
       THEN /\ ctxOps' = Append(initAudio_ops(s0),
                                CtxOp("resume", "play", activeSourceRef))
            /\ Did("play")
            /\ UNCHANGED <<decodes, playbackStatus, error>>
       ELSE /\ ctxOps' = initAudio_ops(s0)
            /\ handlePlayAudio_try(throws, activeSourceRef)

\* The resume() that initAudio did not await completes.
initAudio_resumed ==
  /\ ctxOps # <<>>
  /\ Head(ctxOps).cont = "none"
  /\ ctxOps' = Tail(ctxOps)
  /\ ctxState' = "running"
  /\ Did("ctxResumed")
  /\ UNCHANGED <<playbackStatus, audioContextRef, decodes, activeSourceRef,
                 src, pos, onended, error, propagated>>

\* handlePlayAudio continues after await ctx.resume(): the try block.
handlePlayAudio_resumed(throws) ==
  /\ ctxOps # <<>>
  /\ Head(ctxOps).cont = "play"
  /\ ctxOps' = Tail(ctxOps)
  /\ ctxState' = "running"
  /\ handlePlayAudio_try(throws, Head(ctxOps).prev)
  /\ UNCHANGED <<audioContextRef, activeSourceRef, src, pos, onended, propagated>>

\* playAudioBuffer(buffer, ctx): a new source on the buffer, started from
\* the buffer's beginning.
playAudioBuffer(h) ==
  /\ src' = [src EXCEPT ![h] = "started"]
  /\ pos' = [pos EXCEPT ![h] = 0]

\* handlePlayAudio continues after await decodeAudioData: the promise
\* rejected or playAudioBuffer throws (catch block), or the new source is
\* started, made current, the status set and the callback installed.
handlePlayAudio_decoded(prev, fails) ==
  /\ decodes[prev] > 0
  /\ decodes' = [decodes EXCEPT ![prev] = @ - 1]
  /\ IF fails
       THEN /\ handlePlayAudio_catch
            /\ UNCHANGED <<activeSourceRef, src, pos, onended>>
       ELSE /\ playAudioBuffer(NextHandle)
            /\ activeSourceRef' = NextHandle
            /\ playbackStatus' = "playing"
            /\ onended' = [onended EXCEPT ![NextHandle] = TRUE]
            /\ Did("playStarted")
            /\ UNCHANGED error
  /\ UNCHANGED <<audioContextRef, ctxState, ctxOps, propagated>>

\* A callback that sets the status and keeps the handle reference.
onended_callback_keepsRef ==
  /\ playbackStatus' = "stopped"
  /\ UNCHANGED activeSourceRef

\* The callback handlePlayAudio installs as source.onended.
onended_callback ==
  /\ playbackStatus' = "stopped"
  /\ activeSourceRef' = NoHandle

\* ------------------------------------------------------- togglePauseResume

\* A togglePauseResume whose second branch is a plain else: it resumes from
\* every status but playing.
togglePauseResume_else ==
  /\ propagated' = FALSE
  /\ UNCHANGED <<playbackStatus, audioContextRef, ctxState, decodes,
                 activeSourceRef, src, pos, onended, error>>
  /\ IF audioContextRef = "null"
       THEN /\ Did("toggleNoop")
            /\ UNCHANGED ctxOps
       ELSE IF playbackStatus = "playing"
         THEN /\ PendingPlays + PendingToggles < MaxPending
              /\ ctxOps' = Append(ctxOps, CtxOp("suspend", "pause", NoHandle))
              /\ Did("pause")
         ELSE /\ PendingPlays + PendingToggles < MaxPending
              /\ ctxOps' = Append(ctxOps, CtxOp("resume", "resume", NoHandle))
              /\ Did("resume")

\* A togglePauseResume that, to resume, starts the current source again
\* from the buffer start.
togglePauseResume_restarts ==
  /\ propagated' = FALSE
  /\ UNCHANGED <<playbackStatus, audioContextRef, ctxState, decodes,
                 activeSourceRef, src, onended, error>>
  /\ IF audioContextRef = "null"
       THEN /\ Did("toggleNoop")
            /\ UNCHANGED <<ctxOps, pos>>
       ELSE IF playbackStatus = "playing"
         THEN /\ PendingPlays + PendingToggles < MaxPending
              /\ ctxOps' = Append(ctxOps, CtxOp("suspend", "pause", NoHandle))
              /\ Did("pause")
              /\ UNCHANGED pos
         ELSE IF playbackStatus = "paused"
           THEN /\ PendingPlays + PendingToggles < MaxPending
                /\ ctxOps' = Append(ctxOps, CtxOp("resume", "resume", NoHandle))
                /\ pos' = [h \in Handles |->
                             IF h = activeSourceRef THEN 0 ELSE pos[h]]
                /\ Did("resume")
           ELSE /\ Did("toggleNoop")
                /\ UNCHANGED <<ctxOps, pos>>

\* togglePauseResume(), called: nothing without a context; from playing it
\* awaits ctx.suspend(), from paused ctx.resume(); nothing otherwise.
togglePauseResume ==
  /\ propagated' = FALSE
  /\ UNCHANGED <<playbackStatus, audioContextRef, ctxState, decodes,
                 activeSourceRef, src, pos, onended, error>>
  /\ IF audioContextRef = "null"
       THEN /\ Did("toggleNoop")
            /\ UNCHANGED ctxOps
       ELSE IF playbackStatus = "playing"
         THEN /\ PendingPlays + PendingToggles < MaxPending
              /\ ctxOps' = Append(ctxOps, CtxOp("suspend", "pause", NoHandle))
              /\ Did("pause")
         ELSE IF playbackStatus = "paused"
           THEN /\ PendingPlays + PendingToggles < MaxPending
                /\ ctxOps' = Append(ctxOps, CtxOp("resume", "resume", NoHandle))
                /\ Did("resume")
           ELSE /\ Did("toggleNoop")
                /\ UNCHANGED ctxOps

\* togglePauseResume continues after await ctx.suspend().
togglePauseResume_suspended ==
  /\ ctxOps # <<>>
  /\ Head(ctxOps).cont = "pause"
  /\ ctxOps' = Tail(ctxOps)
  /\ ctxState' = "suspended"
  /\ playbackStatus' = "paused"
  /\ Did("paused")
  /\ UNCHANGED <<audioContextRef, decodes, activeSourceRef, src, pos, onended,
                 error, propagated>>

\* togglePauseResume continues after await ctx.resume().
togglePauseResume_resumed ==
  /\ ctxOps # <<>>
  /\ Head(ctxOps).cont = "resume"
  /\ ctxOps' = Tail(ctxOps)
  /\ ctxState' = "running"
  /\ playbackStatus' = "playing"
  /\ Did("resumed")
  /\ UNCHANGED <<audioContextRef, decodes, activeSourceRef, src, pos, onended,
                 error, propagated>>

\* ------------------------------------------------------------ stopPlayback

\* A stopPlayback without the try/catch: when stop() throws, the exception
\* escapes and the status is not set.
stopPlayback_uncaught(threw) ==
  /\ threw => StopMayThrow(activeSourceRef)
  /\ src' = StopSource(src, activeSourceRef)
  /\ playbackStatus' = IF threw THEN playbackStatus ELSE "stopped"
  /\ propagated' = threw
  /\ Did(IF threw THEN "stopThrew" ELSE "stop")
  /\ UNCHANGED <<audioContextRef, ctxState, ctxOps, decodes, activeSourceRef,
                 pos, onended, error>>

\* stopPlayback(): stop the current handle inside try/catch, whether or not
\* stop() throws (threw), then set the status.
stopPlayback(threw) ==
  /\ threw => StopMayThrow(activeSourceRef)
  /\ src' = StopSource(src, activeSourceRef)
  /\ playbackStatus' = "stopped"
  /\ propagated' = FALSE
  /\ Did(IF threw THEN "stopThrew" ELSE "stop")
  /\ UNCHANGED <<audioContextRef, ctxState, ctxOps, decodes, activeSourceRef,
                 pos, onended, error>>

\* ------------------------------------------------------------ the output

\* The context clock advances: every source that is sounding moves on.
Tick ==
  /\ ctxState = "running"
  /\ ActiveHandles # {}
  /\ pos' = [h \in Handles |-> IF Active(h) THEN pos[h] + 1 ELSE pos[h]]
  /\ Did("tick")
  /\ UNCHANGED <<playbackStatus, audioContextRef, ctxState, ctxOps, decodes,
                 activeSourceRef, src, onended, error, propagated>>

\* The "ended" event of source h is delivered: to its callback if one is set.
\* An ended source has nothing left to play: its position reads as the end.
DeliverEnded(h, label) ==
  /\ src' = [src EXCEPT ![h] = "ended"]
  /\ pos' = [pos EXCEPT ![h] = BufLen]
  /\ IF onended[h]
       THEN /\ onended_callback
            /\ Did(label)
       ELSE /\ Did("endedSilent")
            /\ UNCHANGED <<playbackStatus, activeSourceRef>>
  /\ UNCHANGED <<audioContextRef, ctxState, ctxOps, decodes, onended,
                 error, propagated>>

\* Natural completion: source h has played its buffer to the end.
SourceEnded(h) ==
  /\ src[h] = "started"
  /\ pos[h] = BufLen
  /\ DeliverEnded(h, "ended")

\* Source h was stopped: the running context processes the stop and the
\* "ended" event follows.
SourceStopped(h) ==
  /\ src[h] = "stopping"
  /\ ctxState = "running"
  /\ DeliverEnded(h, "stopEnded")

\* ------------------------------------- generateSpeech (geminiService.ts)
\* Numbers are in hundredths: 60 is 0.6, 61 is 0.61.  A prompt is the
\* sequence of the pieces its template string is put together from.

\* The string a template literal makes of a number: 100 gives "1", 60 gives
\* "0.6", 61 gives "0.61".
NumberToString(n) ==
  IF n % 100 = 0 THEN ToString(n \div 100)
  ELSE IF n % 10 = 0
    THEN ToString(n \div 100) \o "." \o ToString((n % 100) \div 10)
    ELSE ToString(n \div 100) \o "." \o (IF n % 100 < 10 THEN "0" ELSE "")
           \o ToString(n % 100)

nativeModel == "gemini-2.5-flash-native-audio-preview-09-2025"

modelName == "gemini-2.5-flash-preview-tts"

\* A stylePrefix with no entry for Whisper.
stylePrefix_noWhisper(acc) ==
  CASE acc = "Cheerful" -> "Say cheerfully: "
    [] acc = "Formal" -> "Say formally: "
    [] acc = "Romantic" -> "Say romantically: "
    [] acc = "Podcast" -> "Say in an engaging conversational podcast style: "
    [] OTHER -> ""

stylePrefix(acc) ==
  CASE acc = "Cheerful" -> "Say cheerfully: "
    [] acc = "Formal" -> "Say formally: "
    [] acc = "Romantic" -> "Say romantically: "
    [] acc = "Podcast" -> "Say in an engaging conversational podcast style: "
    [] acc = "Whisper" -> "Whisper this quietly and softly: "
    [] OTHER -> ""

\* A speedDesc whose thresholds are strict.
speedDesc_strict(sp) ==
  IF sp < 60 THEN "very slowly"
  ELSE IF sp < 80 THEN "slowly"
  ELSE IF sp > 170 THEN "very quickly"
  ELSE IF sp > 130 THEN "quickly"
  ELSE "at a normal pace"

speedDesc(sp) ==
  IF sp <= 60 THEN "very slowly"
  ELSE IF sp <= 80 THEN "slowly"
  ELSE IF sp >= 170 THEN "very quickly"
  ELSE IF sp >= 130 THEN "quickly"
  ELSE "at a normal pace"

pitchDesc(p) ==
  IF p >= 130 THEN "with a very high-pitched, bright voice"
  ELSE IF p >= 110 THEN "with a slightly higher pitch"
  ELSE IF p <= 70 THEN "with a deep, low-pitched voice"
  ELSE IF p <= 90 THEN "with a slightly lower pitch"
  ELSE "with a natural pitch"

volDesc(acc, vol) ==
  IF acc = "Whisper" THEN "softly, in a hushed whisper"
  ELSE IF vol >= 90 THEN "loudly and powerfully"
  ELSE IF vol <= 40 THEN "softly, almost in a whisper"
  ELSE "at a standard volume"

audioInstruction(acc, sp, p, vol) ==
  <<"Speak ", speedDesc(sp), ", ", pitchDesc(p), ", and ", volDesc(acc, vol),
    ".">>

\* The frames of the instruction, between "As <label>" and the audio
\* instruction.
TeluguFrame == ", read this Telugu text clearly. "
RegionalFrame ==
  ", read this English text with a natural, clear Telugu regional accent. "
EnglishFrame == ", read this English text. "
MixedFrame == ", read this mixed text naturally. "

instruction(lang, acc, v, sp, p, vol) ==
  IF lang = "Telugu"
    THEN <<"As ", VoiceLabel(v), TeluguFrame>>
           \o audioInstruction(acc, sp, p, vol) \o <<" ", stylePrefix(acc)>>
  ELSE IF lang = "English"
    THEN IF acc = "Telugu Accent"
      THEN <<"As ", VoiceLabel(v), RegionalFrame>>
             \o audioInstruction(acc, sp, p, vol)
      ELSE <<"As ", VoiceLabel(v), EnglishFrame>>
             \o audioInstruction(acc, sp, p, vol) \o <<" ", stylePrefix(acc)>>
  ELSE <<"As ", VoiceLabel(v), MixedFrame>>
         \o audioInstruction(acc, sp, p, vol) \o <<" ", stylePrefix(acc)>>

fullPrompt(a) ==
  instruction(a.language, a.accent, a.voice, a.speed, a.pitch, a.volume)
    \o <<"\n\"", Trim(a.text), "\"">>

\* The prompt of the cloned-voice branch.
prompt(a) ==
  <<"Please speak the following text clearly. Match the voice, tone, and character of the provided audio sample as closely as possible. ",
    "Text to speak: \"", Trim(a.text), "\"",
    "Language: ", a.language,
    "Desired Speed: ", NumberToString(a.speed), "x",
    "Pitch Adjustment: ", NumberToString(a.pitch)>>

\* The arguments of a generateSpeech call; clonedVoice is <<>> when the
\* argument is undefined, else the one-element sequence of the voice.
Args(t, lang, acc, v, sp, p, vol, cv) ==
  [text |-> t, language |-> lang, accent |-> acc, voice |-> v, speed |-> sp,
   pitch |-> p, volume |-> vol, clonedVoice |-> cv]

\* The argument of ai.models.generateContent: with a cloned voice the
\* sample and the prompt for the native-audio model, otherwise the full
\* prompt for the TTS model with the prebuilt voice configured.
GenerateContentRequest(a) ==
  IF a.clonedVoice # <<>>
    THEN [model |-> nativeModel,
          inlineData |-> <<[mimeType |-> a.clonedVoice[1].mimeType,
                            data |-> a.clonedVoice[1].audioData]>>,
          text |-> prompt(a),
          voiceName |-> <<>>]
    ELSE [model |-> modelName,
          inlineData |-> <<>>,
          text |-> fullPrompt(a),
          voiceName |-> <<a.voice>>]

\* generateSpeech up to its await: the one generateContent call of the
\* branch taken.
generateSpeech_request(a) ==
  /\ sent' = <<GenerateContentRequest(a)>>
  /\ nRequests' = nRequests + 1

\* ------------------------------------------- the compiler, input by input

CompileTexts == {"hi", " "}
CompileVoices == {"Kore", "Puck", "CLONED"}
CompileSpeeds == {50, 60, 61, 80, 81, 100, 129, 130, 169, 170, 200}
CompilePitches == {70, 100, 130}
CompileVolumes == {10, 40, 41, 50, 60, 61, 80, 89, 90, 100}
CompileClones == {<<>>, <<ClonedVoice(1, "audio/wav")>>}

CompileInputs ==
  {Args(t, lang, acc, v, sp, p, vol, cv) :
     t \in CompileTexts, lang \in Languages, acc \in Accents,
     v \in CompileVoices, sp \in CompileSpeeds, p \in CompilePitches,
     vol \in CompileVolumes, cv \in CompileClones}

\* generateSpeech has been called with one of the inputs.
InitCompile ==
  /\ InitPlayback
  /\ InitApp
  /\ InitHost
  /\ call \in {<<a>> : a \in CompileInputs}
  /\ nCalls = 1
  /\ sent = <<>>
  /\ nRequests = 0

\* The call runs to its await.
Compile ==
  /\ call # <<>>
  /\ sent = <<>>
  /\ generateSpeech_request(call[1])
  /\ lastOp' = "request"
  /\ UNCHANGED <<playVars, error, text, settingVars, isLoading, history,
                 presets, clonedVoices, selectedClonedVoiceId, lastAudioData, download,
                 hasApiKey, aistudio, keySelector, voicesMade, call,
                 nCalls, tts, response, failure, errorClass>>

NextCompile == Compile

SpecCompile == InitCompile /\ [][NextCompile]_vars

\* ----------------------------------------------- messages and failures

\* What the backend's rejections say (err.message); "" is an error without
\* a message.
Forbidden403 == "got status: 403 Forbidden"
PermissionDenied == "The caller does not have permission"
EntityNotFound == "Requested entity was not found."
RpcFailed == "Rpc failed due to xhr error"
ApiErrors == {Forbidden403, PermissionDenied, EntityNotFound, RpcFailed, ""}

\* The messages of geminiService.ts.
NoAudioData == "Speech engine returned no audio data."
CloneNoAudio == "Voice cloning engine failed to produce audio."
SynthesisError == "An error occurred during speech synthesis."
CloneSynthesisError == "Failed to synthesize speech using cloned voice."

\* The messages of generateTTS.
ApiKeyIssue == "API key issue. Please select a valid paid API key."
SynthesisFailed == "Synthesis failed."
EnterText == "Please enter some text first."

\* A message as the sequence of its words and punctuation marks.
Words(m) ==
  CASE m = Forbidden403 -> <<"got", "status", ":", "403", "Forbidden">>
    [] m = PermissionDenied ->
         <<"The", "caller", "does", "not", "have", "permission">>
    [] m = EntityNotFound ->
         <<"Requested", "entity", "was", "not", "found", ".">>
    [] m = RpcFailed -> <<"Rpc", "failed", "due", "to", "xhr", "error">>
    [] m = NoAudioData ->
         <<"Speech", "engine", "returned", "no", "audio", "data", ".">>
    [] m = CloneNoAudio ->
         <<"Voice", "cloning", "engine", "failed", "to", "produce", "audio",
           ".">>
    [] m = SynthesisError ->
         <<"An", "error", "occurred", "during", "speech", "synthesis", ".">>
    [] m = CloneSynthesisError ->
         <<"Failed", "to", "synthesize", "speech", "using", "cloned", "voice",
           ".">>
    [] m = "403" -> <<"403">>
    [] m = "permission" -> <<"permission">>
    [] m = "Requested entity was not found" ->
         <<"Requested", "entity", "was", "not", "found">>
    [] OTHER -> <<>>

\* String.prototype.includes, word by word: needle occurs in m as a run of
\* consecutive words.
Includes(m, needle) ==
  \E i \in 0..Len(Words(m)) :
    /\ i + Len(Words(needle)) <= Len(Words(m))
    /\ \A j \in 1..Len(Words(needle)) : Words(m)[i + j] = Words(needle)[j]

\* The responses and rejections generateContent can settle with: a response
\* with an inline audio part, one without (with or without a text part that
\* explains why), or a rejection with a message.
Explanation == "I cannot read this text aloud."
Responses ==
  {[kind |-> "audio", text |-> "", message |-> ""]}
    \cup {[kind |-> "noAudio", text |-> t, message |-> ""] :
            t \in {"", Explanation}}
    \cup {[kind |-> "error", text |-> "", message |-> m] : m \in ApiErrors}

\* A catch block that issues the request once more before it gives up.
generateSpeech_catch_retries(m, cloned) ==
  /\ nRequests' = nRequests + 1
  /\ UNCHANGED sent

\* The catch blocks of generateSpeech: the error is thrown on, nothing is
\* sent again.
generateSpeech_catch(m, cloned) ==
  UNCHANGED <<sent, nRequests>>

\* The message of the error generateSpeech rejects with, for a response
\* without audio or a rejection of generateContent.
generateSpeech_message(resp, cloned) ==
  IF resp.kind = "noAudio"
    THEN (IF cloned THEN CloneNoAudio ELSE NoAudioData)
  ELSE IF resp.message # "" THEN resp.message
  ELSE IF cloned THEN CloneSynthesisError ELSE SynthesisError

\* ------------------------------------------------- key selection (App.tsx)

\* handleOpenKeySelector(), called: with window.aistudio the selector is
\* opened and the call awaits it; without, nothing happens.
handleOpenKeySelector_open ==
  keySelector' = IF aistudio THEN keySelector + 1 ELSE keySelector

\* The button of the "API Key Required" dialog.
handleOpenKeySelector ==
  /\ ~hasApiKey
  /\ keySelector = 0
  /\ aistudio
  /\ handleOpenKeySelector_open
  /\ Did("openKeySelector")
  /\ UNCHANGED <<audioVars, error, text, settingVars, isLoading, history,
                 presets, clonedVoices, selectedClonedVoiceId, lastAudioData, download,
                 hasApiKey, aistudio, voicesMade, call, sent, nCalls,
                 nRequests, tts, response, failure, errorClass>>

\* handleOpenKeySelector continues after await openSelectKey().
handleOpenKeySelector_selected ==
  /\ keySelector > 0
  /\ keySelector' = keySelector - 1
  /\ hasApiKey' = TRUE
  /\ error' = "null"
  /\ Did("keySelected")
  /\ UNCHANGED <<audioVars, text, settingVars, isLoading, history, presets,
                 clonedVoices, selectedClonedVoiceId, lastAudioData, download, aistudio,
                 voicesMade, call, sent, nCalls, nRequests, tts,
                 response, failure, errorClass>>

\* ------------------------------------------- voices and presets (App.tsx)

Texts == {"", "hi"}
VoiceChoices == {"Kore", "Puck"}
MimeTypes == {"audio/wav"}

\* The ids of the cloned voices in the list.
VoiceIds == {clonedVoices[i].id : i \in DOMAIN clonedVoices}

\* The frame of a step that touches none of the playback controller, the
\* host or the speech service.
OnlySettings ==
  /\ Did("settings")
  /\ UNCHANGED <<audioVars, error, isLoading, history, lastAudioData, download, hasApiKey,
              aistudio, keySelector, call, sent, nCalls, nRequests,
              tts, response, failure, errorClass>>

\* The textarea's onChange.
setText(t) ==
  /\ text' = t
  /\ t # text
  /\ OnlySettings
  /\ UNCHANGED <<settingVars, presets, clonedVoices, selectedClonedVoiceId,
                 voicesMade>>

\* The voice picker, shown while no cloned voice is selected.
setVoice(v) ==
  /\ selectedClonedVoiceId = "null"
  /\ v # voice
  /\ voice' = v
  /\ OnlySettings
  /\ UNCHANGED <<text, language, accent, speed, pitch, volume, presets,
                 clonedVoices, selectedClonedVoiceId, voicesMade>>

\* VoiceCloner.handleFileChange after await fileToBase64: the new voice is
\* added (onVoiceAdded) and selected (onSelectVoice).
handleFileChange(mime) ==
  /\ voicesMade < MaxVoices
  /\ voicesMade' = voicesMade + 1
  /\ clonedVoices' = Append(clonedVoices, ClonedVoice(voicesMade + 1, mime))
  /\ selectedClonedVoiceId' = ClonedId(voicesMade + 1)
  /\ OnlySettings
  /\ UNCHANGED <<text, settingVars, presets>>

\* onSelectVoice: a voice of the list, or "Standard" (null).
onSelectVoice(id) ==
  /\ id \in VoiceIds \cup {"null"}
  /\ id # selectedClonedVoiceId
  /\ selectedClonedVoiceId' = id
  /\ OnlySettings
  /\ UNCHANGED <<text, settingVars, presets, clonedVoices, voicesMade>>

\* onVoiceDeleted: the voice leaves the list, and the selection if it was
\* the selected one.
onVoiceDeleted(id) ==
  /\ id \in VoiceIds
  /\ LET Keep(v) == v.id # id IN clonedVoices' = SelectSeq(clonedVoices, Keep)
  /\ selectedClonedVoiceId' =
       IF selectedClonedVoiceId = id THEN "null" ELSE selectedClonedVoiceId
  /\ OnlySettings
  /\ UNCHANGED <<text, settingVars, presets, voicesMade>>

savePreset ==
  /\ Len(presets) < MaxPresets
  /\ presets' = Append(presets,
       [language |-> language, accent |-> accent,
        voice |-> IF selectedClonedVoiceId # "null"
                    THEN selectedClonedVoiceId ELSE voice,
        speed |-> speed, pitch |-> pitch, volume |-> volume])
  /\ OnlySettings
  /\ UNCHANGED <<text, settingVars, clonedVoices, selectedClonedVoiceId,
                 voicesMade>>

\* A loadPreset that, for a preset with a prebuilt voice, sets the voice and
\* leaves the cloned selection as it is.
loadPreset_keepsSelection(i) ==
  /\ i \in DOMAIN presets
  /\ language' = presets[i].language
  /\ accent' = presets[i].accent
  /\ IF StartsWithCloned(presets[i].voice)
       THEN /\ selectedClonedVoiceId' = presets[i].voice
            /\ UNCHANGED voice
       ELSE /\ UNCHANGED selectedClonedVoiceId
            /\ voice' = presets[i].voice
  /\ speed' = presets[i].speed
  /\ pitch' = presets[i].pitch
  /\ volume' = presets[i].volume
  /\ OnlySettings
  /\ UNCHANGED <<text, presets, clonedVoices, voicesMade>>

loadPreset(i) ==
  /\ i \in DOMAIN presets
  /\ language' = presets[i].language
  /\ accent' = presets[i].accent
  /\ IF StartsWithCloned(presets[i].voice)
       THEN /\ selectedClonedVoiceId' = presets[i].voice
            /\ UNCHANGED voice
       ELSE /\ selectedClonedVoiceId' = "null"
            /\ voice' = presets[i].voice
  /\ speed' = presets[i].speed
  /\ pitch' = presets[i].pitch
  /\ volume' = presets[i].volume
  /\ OnlySettings
  /\ UNCHANGED <<text, presets, clonedVoices, voicesMade>>

\* onDelete of the preset list.
deletePreset(i) ==
  /\ i \in DOMAIN presets
  /\ presets' = [j \in 1..(Len(presets) - 1) |->
                   IF j < i THEN presets[j] ELSE presets[j + 1]]
  /\ OnlySettings
  /\ UNCHANGED <<text, settingVars, clonedVoices, selectedClonedVoiceId,
                 voicesMade>>

\* ------------------------------------------------------------ generateTTS

\* The most items the history keeps.
HistoryCap == 20

\* A test that knows the 403 marker only.
IsKeyError_only403(errMsg) == Includes(errMsg, "403")

\* errMsg.includes("403") || errMsg.includes("permission") ||
\* errMsg.includes("Requested entity was not found")
IsKeyError(errMsg) ==
  \/ Includes(errMsg, "403")
  \/ Includes(errMsg, "permission")
  \/ Includes(errMsg, "Requested entity was not found")

\* clonedVoices.find(v => v.id === selectedClonedVoiceId): <<>> when there
\* is none.
activeClonedVoice ==
  LET Keep(v) == v.id = selectedClonedVoiceId
      found == SelectSeq(clonedVoices, Keep)
  IN IF found = <<>> THEN <<>> ELSE <<Head(found)>>

\* A Speak button that looks at the text only.
SpeakEnabled_noLoading == Trim(text) # ""

\* The Speak button is enabled.
SpeakEnabled == ~isLoading /\ Trim(text) # ""

\* A guard that raises the loading flag before it looks at the text.
generateTTS_noText_loading ==
  /\ error' = EnterText
  /\ isLoading' = TRUE
  /\ Did("ttsNoText")
  /\ UNCHANGED <<audioVars, text, settingVars, history, presets,
                 clonedVoices, selectedClonedVoiceId, lastAudioData, download,
                 hasApiKey, aistudio, keySelector, voicesMade, call, sent,
                 nCalls, nRequests, tts, response, failure, errorClass>>

\* if (!text.trim()) { setError(...); return; }
generateTTS_noText ==
  /\ error' = EnterText
  /\ Did("ttsNoText")
  /\ UNCHANGED <<audioVars, appVars>>

\* generateTTS(), called: without text an error message and nothing else;
\* otherwise the call of generateSpeech with the current settings, which
\* runs to its await.
generateTTS ==
  IF Trim(text) = ""
    THEN generateTTS_noText
    ELSE /\ nCalls < MaxCalls
         /\ error' = "null"
         /\ isLoading' = TRUE
         /\ LET a == Args(text, language, accent,
                          IF selectedClonedVoiceId # "null"
                            THEN "CLONED" ELSE voice,
                          speed, pitch, volume, activeClonedVoice)
            IN /\ call' = <<a>>
               /\ nCalls' = nCalls + 1
               /\ generateSpeech_request(a)
         /\ tts' = <<[at |-> "generateSpeech",
                      text |-> text,
                      voice |-> IF selectedClonedVoiceId # "null"
                                  THEN selectedClonedVoiceId ELSE voice,
                      isCloned |-> selectedClonedVoiceId # "null"]>>
         /\ response' = <<>>
         /\ failure' = "null"
         /\ errorClass' = "none"
         /\ Did("tts")
         /\ UNCHANGED <<audioVars, text, settingVars, history, presets,
                        clonedVoices, selectedClonedVoiceId, lastAudioData, download,
                        hasApiKey, aistudio, keySelector, voicesMade>>

\* The catch block of generateTTS for an error with message errMsg.
generateTTS_catch(errMsg) ==
  /\ failure' = errMsg
  /\ IF IsKeyError(errMsg)
       THEN /\ error' = ApiKeyIssue
            /\ hasApiKey' = FALSE
            /\ handleOpenKeySelector_open
            /\ errorClass' = "keyIssue"
       ELSE /\ error' = IF errMsg # "" THEN errMsg ELSE SynthesisFailed
            /\ errorClass' = "other"
            /\ UNCHANGED <<hasApiKey, keySelector>>

\* A history that keeps every item.
pushHistory_uncapped(newItem, prev) == <<newItem>> \o prev

\* setHistory(prev => [newItem, ...prev].slice(0, 20))
pushHistory(newItem, prev) ==
  SubSeq(<<newItem>> \o prev, 1,
         IF Len(prev) + 1 > HistoryCap THEN HistoryCap ELSE Len(prev) + 1)

\* generateSpeech settles with a payload: generateTTS stores it, puts the
\* new item first in the history and calls handlePlayAudio, which returns
\* at once when it fails before its first await (then finally runs).
generateTTS_audio(throws, s0) ==
  /\ lastAudioData' = nRequests
  /\ history' = pushHistory([text |-> tts[1].text, voice |-> tts[1].voice,
                              isCloned |-> tts[1].isCloned,
                              audioData |-> nRequests], history)
  /\ handlePlayAudio(throws, s0)
  /\ IF lastOp' = "playFailed"
       THEN /\ isLoading' = FALSE
            /\ tts' = <<>>
       ELSE /\ tts' = <<[tts[1] EXCEPT !.at = "handlePlayAudio"]>>
            /\ UNCHANGED isLoading
  /\ UNCHANGED <<hasApiKey, keySelector, failure, errorClass, sent,
                 nRequests>>

\* generateSpeech rejects: its catch block throws the error on, the catch
\* block of generateTTS reports it, and finally runs.
generateTTS_failed(resp) ==
  /\ generateSpeech_catch(resp.message, call[1].clonedVoice # <<>>)
  /\ generateTTS_catch(generateSpeech_message(resp, call[1].clonedVoice # <<>>))
  /\ isLoading' = FALSE
  /\ tts' = <<>>
  /\ Did("ttsFailed")
  /\ UNCHANGED <<audioVars, history, lastAudioData>>

\* The generateContent call of the suspended generateTTS settles.
generateTTS_response(resp, throws, s0) ==
  /\ tts # <<>>
  /\ tts[1].at = "generateSpeech"
  /\ response' = <<resp>>
  /\ IF resp.kind = "audio"
       THEN generateTTS_audio(throws, s0)
       ELSE generateTTS_failed(resp)
  /\ UNCHANGED <<text, settingVars, presets, clonedVoices,
                 selectedClonedVoiceId, download, aistudio, voicesMade, call,
                 nCalls>>

\* The handlePlayAudio call generateTTS awaits goes on; when it returns,
\* finally runs.
generateTTS_played ==
  /\ tts # <<>>
  /\ tts[1].at = "handlePlayAudio"
  /\ \/ \E throws \in BOOLEAN : handlePlayAudio_resumed(throws)
     \/ \E prev \in 0..MaxHandles, fails \in BOOLEAN :
          handlePlayAudio_decoded(prev, fails)
  /\ IF lastOp' \in {"playStarted", "playFailed"}
       THEN /\ isLoading' = FALSE
            /\ tts' = <<>>
       ELSE UNCHANGED <<isLoading, tts>>
  /\ UNCHANGED <<text, settingVars, history, presets, clonedVoices,
                 selectedClonedVoiceId, lastAudioData, download, hasApiKey, aistudio,
                 keySelector, voicesMade, call, sent, nCalls,
                 nRequests, response, failure, errorClass>>

\* The page is opened in a host with or without window.aistudio, and the
\* mount effect has run: with window.aistudio hasApiKey is what
\* hasSelectedApiKey() answered.
InitTTS ==
  /\ InitPlayback
  /\ InitApp
  /\ InitService
  /\ aistudio \in BOOLEAN
  /\ hasApiKey \in IF aistudio THEN BOOLEAN ELSE {TRUE}

\* The synthesis path: text and voices, the Speak button, the speech
\* service and the playback generateTTS starts.
NextTTS ==
  \/ \E t \in Texts : setText(t)
  \/ \E v \in VoiceChoices : setVoice(v)
  \/ \E mime \in MimeTypes : handleFileChange(mime)
  \/ \E id \in ClonedIds \cup {"null"} : onSelectVoice(id)
  \/ \E id \in ClonedIds : onVoiceDeleted(id)
  \/ SpeakEnabled /\ generateTTS
  \/ \E resp \in Responses, throws \in BOOLEAN, s0 \in {"running", "suspended"} :
       generateTTS_response(resp, throws, s0)
  \/ generateTTS_played
  \/ /\ initAudio_resumed
     /\ UNCHANGED appVars
  \/ handleOpenKeySelector
  \/ handleOpenKeySelector_selected

SpecTTS == InitTTS /\ [][NextTTS]_vars

\* The synthesis path with the preset manager.
NextPresets ==
  \/ NextTTS
  \/ savePreset
  \/ \E i \in 1..MaxPresets : loadPreset(i)
  \/ \E i \in 1..MaxPresets : deletePreset(i)

SpecPresets == InitTTS /\ [][NextPresets]_vars

\* The synthesis path with generateTTS also called as a function when the
\* text is empty or blank, the case its first lines are written for (the
\* Speak button is disabled then).
NextCall ==
  \/ \E t \in Texts \cup {" "} : setText(t)
  \/ SpeakEnabled /\ generateTTS
  \/ Trim(text) = "" /\ generateTTS
  \/ \E resp \in Responses, throws \in BOOLEAN, s0 \in {"running", "suspended"} :
       generateTTS_response(resp, throws, s0)
  \/ generateTTS_played
  \/ /\ initAudio_resumed
     /\ UNCHANGED appVars

SpecCall == InitTTS /\ [][NextCall]_vars

\* ----------------------------------------------------- the settings panel

\* The values the user picks in the selectors and on the sliders.
SettingLanguages == {"English", "Telugu"}
SettingAccents == {"Telugu Accent", "Whisper"}
SettingSpeeds == {100, 150}
SettingPitches == {80, 100}
SettingVolumes == {40, 80}

\* The language and style selectors, shown while no cloned voice is
\* selected.
setLanguage(l) ==
  /\ selectedClonedVoiceId = "null"
  /\ l # language
  /\ language' = l
  /\ OnlySettings
  /\ UNCHANGED <<text, accent, voice, speed, pitch, volume, presets,
                 clonedVoices, selectedClonedVoiceId, voicesMade>>

setAccent(a) ==
  /\ selectedClonedVoiceId = "null"
  /\ a # accent
  /\ accent' = a
  /\ OnlySettings
  /\ UNCHANGED <<text, language, voice, speed, pitch, volume, presets,
                 clonedVoices, selectedClonedVoiceId, voicesMade>>

\* The sliders.
setSpeed(v) ==
  /\ v # speed
  /\ speed' = v
  /\ OnlySettings
  /\ UNCHANGED <<text, language, accent, voice, pitch, volume, presets,
                 clonedVoices, selectedClonedVoiceId, voicesMade>>

setPitch(v) ==
  /\ v # pitch
  /\ pitch' = v
  /\ OnlySettings
  /\ UNCHANGED <<text, language, accent, voice, speed, volume, presets,
                 clonedVoices, selectedClonedVoiceId, voicesMade>>

setVolume(v) ==
  /\ v # volume
  /\ volume' = v
  /\ OnlySettings
  /\ UNCHANGED <<text, language, accent, voice, speed, pitch, presets,
                 clonedVoices, selectedClonedVoiceId, voicesMade>>

\* The settings panel, the voice cloner and the preset manager; the user
\* saves a preset when the list is empty.
NextSettings ==
  \/ \E l \in SettingLanguages : setLanguage(l)
  \/ \E a \in SettingAccents : setAccent(a)
  \/ \E v \in VoiceChoices : setVoice(v)
  \/ \E v \in SettingSpeeds : setSpeed(v)
  \/ \E v \in SettingPitches : setPitch(v)
  \/ \E v \in SettingVolumes : setVolume(v)
  \/ \E mime \in MimeTypes : handleFileChange(mime)
  \/ \E id \in ClonedIds \cup {"null"} : onSelectVoice(id)
  \/ \E id \in ClonedIds : onVoiceDeleted(id)
  \/ presets = <<>> /\ savePreset
  \/ \E i \in 1..MaxPresets : loadPreset(i)
  \/ \E i \in 1..MaxPresets : deletePreset(i)

SpecSettings == Init /\ [][NextSettings]_vars

\* ------------------------------------------------------------ the history

\* The i-th item of a history an earlier session left in localStorage; its
\* audio is the stored payload -i.
StoredItem(i) ==
  [text |-> "hi", voice |-> "Kore", isCloned |-> FALSE, audioData |-> -i]

StoredHistory(n) == [i \in 1..n |-> StoredItem(i)]

\* The lengths of the stored history the page is opened with.
StoredLengths == {0, HistoryCap}

\* The page is opened and the mount effects have run: the history is the
\* one found in localStorage.
InitStored ==
  /\ InitPlayback
  /\ InitSettings
  /\ InitService
  /\ aistudio \in BOOLEAN
  /\ hasApiKey \in IF aistudio THEN BOOLEAN ELSE {TRUE}
  /\ \E n \in StoredLengths : history = StoredHistory(n)
  /\ lastAudioData = 0

\* The frame of a step of the history list.
OnlyHistory ==
  /\ UNCHANGED <<audioVars, error, text, settingVars, isLoading, presets,
                 clonedVoices, selectedClonedVoiceId, lastAudioData, download,
                 hasApiKey, aistudio, keySelector, voicesMade, call, sent,
                 nCalls, nRequests, tts, response, failure, errorClass>>

\* onDelete of the history list, for the i-th item:
\* setHistory(prev => prev.filter(i => i.id !== id)).
onDelete(i) ==
  /\ i \in DOMAIN history
  /\ history' = [j \in 1..(Len(history) - 1) |->
                   IF j < i THEN history[j] ELSE history[j + 1]]
  /\ Did("historyDelete")
  /\ OnlyHistory

\* clearHistory: the history is emptied when the user confirms.
clearHistory(confirmed) ==
  /\ history # <<>>
  /\ history' = IF confirmed THEN <<>> ELSE history
  /\ Did("historyClear")
  /\ OnlyHistory

\* The synthesis path with the history list; the user deletes the newest
\* or the oldest item.
NextHistory ==
  \/ setText("hi")
  \/ SpeakEnabled /\ generateTTS
  \/ \E resp \in Responses, throws \in BOOLEAN, s0 \in {"running", "suspended"} :
       generateTTS_response(resp, throws, s0)
  \/ generateTTS_played
  \/ /\ initAudio_resumed
     /\ UNCHANGED appVars
  \/ \E i \in {1, Len(history)} : onDelete(i)
  \/ \E confirmed \in BOOLEAN : clearHistory(confirmed)

SpecHistory == InitStored /\ [][NextHistory]_vars

\* The playback controller with a history item to play: every step leaves
\* the settings, the voices and the speech service alone.
Next ==
  \/ /\ \E throws \in BOOLEAN, s0 \in {"running", "suspended"} : handlePlayAudio(throws, s0)
     /\ UNCHANGED appVars
  \/ /\ initAudio_resumed
     /\ UNCHANGED appVars
  \/ /\ \E throws \in BOOLEAN : handlePlayAudio_resumed(throws)
     /\ UNCHANGED appVars
  \/ /\ \E prev \in 0..MaxHandles, fails \in BOOLEAN : handlePlayAudio_decoded(prev, fails)
     /\ UNCHANGED appVars
  \/ /\ togglePauseResume
     /\ UNCHANGED appVars
  \/ /\ togglePauseResume_suspended
     /\ UNCHANGED appVars
  \/ /\ togglePauseResume_resumed
     /\ UNCHANGED appVars
  \/ /\ \E threw \in BOOLEAN : stopPlayback(threw)
     /\ UNCHANGED appVars
  \/ /\ Tick
     /\ UNCHANGED appVars
  \/ /\ \E h \in Handles : SourceEnded(h)
     /\ UNCHANGED appVars
  \/ /\ \E h \in Handles : SourceStopped(h)
     /\ UNCHANGED appVars

Spec == Init /\ [][Next]_vars

TypeOK ==
  /\ playbackStatus \in {"stopped", "playing", "paused"}
  /\ audioContextRef \in {"null", "ctx"}
  /\ ctxState \in {"none", "running", "suspended"}
  /\ activeSourceRef \in Handles \cup {NoHandle}
  /\ src \in [Handles -> {"unused", "started", "stopping", "ended"}]
  /\ pos \in [Handles -> 0..BufLen]
  /\ onended \in [Handles -> BOOLEAN]
  /\ error \in {"null", PlaybackFailed}
  /\ propagated \in BOOLEAN
  /\ PendingPlays + PendingToggles <= MaxPending
  /\ prevStatus \in {"stopped", "playing", "paused"}

\* ----------------------------------------------------------------- claims

StopLabels == {"stop", "stopThrew"}

\* Some handlePlayAudio call is suspended that was made while h was current.
PlayPendingOn(h) ==
  \/ decodes[h] > 0
  \/ \E i \in 1..Len(ctxOps) : ctxOps[i].cont = "play" /\ ctxOps[i].prev = h

\* C1: single-flight playback: in every reachable state at most one source
\* started by handlePlayAudio is scheduled and neither stopped nor ended.
C1_SingleFlight == Cardinality(ActiveHandles) <= 1

\* C2: a play called while a handle is current (status playing or paused)
\* has halted that handle for as long as the call is suspended, hence before
\* its own handle is started; the handle it starts was never used before and
\* begins at the buffer start; the status after the call is playing.
C2_PlayReplaces ==
  /\ [](\A h \in Handles : PlayPendingOn(h) => src[h] \in {"stopping", "ended"})
  /\ [][lastOp' = "playStarted" =>
          /\ activeSourceRef' \in Handles
          /\ src[activeSourceRef'] = "unused"
          /\ src'[activeSourceRef'] = "started"
          /\ pos'[activeSourceRef'] = 0
          /\ \A h \in Handles \ {activeSourceRef'} : src'[h] = src[h]
          /\ playbackStatus' = "playing"]_vars

\* C2 witness: a play made from an active session has started its handle
\* while the one it replaced is halted, its callback removed.
C2_Witness ==
  /\ lastOp = "playStarted"
  /\ prevStatus \in {"playing", "paused"}
  /\ playbackStatus = "playing"
  /\ \E h \in Handles \ {activeSourceRef} :
       src[h] \in {"stopping", "ended"} /\ ~onended[h]

\* The status changes the state machine lists, by the step that makes them;
\* a play on an active session counts as a stop followed by the play.
ListedTransition(from, to, by) ==
  \/ from = "stopped" /\ to = "playing" /\ by = "playStarted"
  \/ from = "playing" /\ to = "paused" /\ by = "paused"
  \/ from = "paused" /\ to = "playing" /\ by = "resumed"
  \/ from = "playing" /\ to = "stopped" /\ by \in StopLabels
  \/ from = "paused" /\ to = "stopped" /\ by \in StopLabels
  \/ from = "playing" /\ to = "stopped" /\ by = "ended"
  \/ from = "paused" /\ to = "playing" /\ by = "playStarted"
  \/ from \in {"playing", "paused"} /\ to = "stopped" /\ by = "playFailed"

\* C3: every change of the playback status is one of the listed transitions.
C3_OnlyListedTransitions ==
  playbackStatus # prevStatus =>
    ListedTransition(prevStatus, playbackStatus, lastOp)

\* C4: stopPlayback from playing or paused leaves the status stopped, also
\* when stop() on the handle threw, and lets no exception escape.
C4_StopUnconditional ==
  (lastOp \in StopLabels /\ prevStatus \in {"playing", "paused"}) =>
    (playbackStatus = "stopped" /\ ~propagated)

\* C4 witness: a stop from an active session whose stop() threw.
C4_Witness ==
  /\ lastOp = "stopThrew"
  /\ prevStatus \in {"playing", "paused"}
  /\ playbackStatus = "stopped"

\* Whether the "ended" event of handle h can still be delivered.
EndedDeliverable(h) ==
  \/ src[h] = "started" /\ pos[h] = BufLen
  \/ src[h] = "stopping" /\ ctxState = "running"

\* C5: after stopPlayback from playing or paused the controller holds no
\* current handle once the stop has taken effect (no "ended" event of the
\* handle is still to be delivered), without a later play or resume.
C5_StopReleasesHandle ==
  ( /\ lastOp \in StopLabels
    /\ prevStatus \in {"playing", "paused"}
    /\ PendingPlays + PendingToggles = 0
    /\ ctxOps = <<>>
    /\ \A h \in Handles : ~EndedDeliverable(h) ) => activeSourceRef = NoHandle

\* C6: when the current handle plays to its end, the delivery of its "ended"
\* event sets the status to stopped and clears the handle reference.
C6_NaturalCompletion ==
  [][\A h \in Handles :
       (h = activeSourceRef /\ src[h] = "started" /\ src'[h] = "ended") =>
         (playbackStatus' = "stopped" /\ activeSourceRef' = NoHandle)]_vars

\* C6 witness: the only handle ever started has played to its end from
\* status playing.
C6_Witness ==
  /\ lastOp = "ended"
  /\ prevStatus = "playing"
  /\ playbackStatus = "stopped"
  /\ activeSourceRef = NoHandle
  /\ UsedHandles = {1}
  /\ src[1] = "ended"
  /\ pos[1] = BufLen

\* C7: a play that fails (decodeBase64, decodeAudioData or playAudioBuffer)
\* shows the error message and leaves the status stopped, whatever the
\* status was before.
C7_PlayFailureStops ==
  lastOp = "playFailed" => (playbackStatus = "stopped" /\ error = PlaybackFailed)

\* C7 witness: a play failed while the status was playing.
C7_Witness ==
  /\ lastOp = "playFailed"
  /\ prevStatus = "playing"
  /\ playbackStatus = "stopped"

ToggleLabels == {"toggleNoop", "pause", "resume"}

\* C8: togglePauseResume requests a suspend only from playing and a resume
\* only from paused; called while the status is stopped, or before a
\* context exists, it leaves status, handle, sources and clock as they are.
C8_ToggleOnlyWhenActive ==
  [][/\ lastOp' = "pause" => playbackStatus = "playing"
     /\ lastOp' = "resume" => playbackStatus = "paused"
     /\ (lastOp' \in ToggleLabels /\
           (playbackStatus = "stopped" \/ audioContextRef = "null")) =>
          UNCHANGED <<playbackStatus, audioContextRef, ctxState, ctxOps,
                      activeSourceRef, src, pos, onended>>]_vars

\* C8 witness: the toggle was called with a context but status stopped.
C8_Witness ==
  /\ lastOp = "toggleNoop"
  /\ prevStatus = "stopped"
  /\ playbackStatus = "stopped"
  /\ audioContextRef = "ctx"
  /\ UsedHandles # {}

PauseResumeLabels == {"pause", "resume", "paused", "resumed"}

\* C9: no step of pause or resume (the call or its continuation) changes
\* the current handle, any source or any position, and no position moves
\* while the context is suspended: playback resumes where it was suspended.
C9_PauseResumeClockOnly ==
  [][/\ lastOp' \in PauseResumeLabels =>
          UNCHANGED <<activeSourceRef, src, pos, onended>>
     /\ ctxState = "suspended" => pos' = pos]_vars

\* C9 witness: a resume has completed with the current handle in mid-buffer.
C9_Witness ==
  /\ lastOp = "resumed"
  /\ prevStatus = "paused"
  /\ playbackStatus = "playing"
  /\ ctxState = "running"
  /\ activeSourceRef # NoHandle
  /\ src[activeSourceRef] = "started"
  /\ pos[activeSourceRef] > 0
  /\ pos[activeSourceRef] < BufLen

\* C10: stopPlayback with the status already stopped lets no exception
\* escape and leaves the status stopped and the handle reference as it was;
\* a stop right after a stop changes nothing at all.
C10_StopIdempotent ==
  [][/\ (lastOp' \in StopLabels /\ playbackStatus = "stopped") =>
          /\ playbackStatus' = "stopped"
          /\ activeSourceRef' = activeSourceRef
          /\ ~propagated'
     /\ (lastOp \in StopLabels /\ lastOp' \in StopLabels) =>
          UNCHANGED <<playbackStatus, audioContextRef, ctxState, ctxOps,
                      decodes, activeSourceRef, src, pos, onended, error,
                      propagated>>]_vars

\* C10 witness: a stop of an already stopped session whose handle had
\* already been stopped or had ended.
C10_Witness ==
  /\ lastOp \in StopLabels
  /\ prevStatus = "stopped"
  /\ playbackStatus = "stopped"
  /\ activeSourceRef # NoHandle
  /\ src[activeSourceRef] \in {"stopping", "ended"}

\* ------------------------------------------- claims on the compiler
\* These are read in the states of SpecCompile in which the call has issued
\* its request: call[1] are the arguments, sent[1] is the request.

\* The backend mode of a request: the native-audio model with the sample
\* attached, or the TTS model with a prebuilt voice.
backendMode(req) ==
  IF req.model = nativeModel /\ req.inlineData # <<>>
    THEN "SampleConditioned" ELSE "Prebuilt"

\* The pieces of a prompt, as a set.
Pieces(req) == {req.text[i] : i \in DOMAIN req.text}

HushedWhisper == "softly, in a hushed whisper"

LoudnessPhrases ==
  {HushedWhisper, "loudly and powerfully", "softly, almost in a whisper",
   "quietly", "at a standard volume"}

PacePhrases ==
  {"very slowly", "slowly", "very quickly", "quickly", "at a normal pace"}

Frames == {TeluguFrame, RegionalFrame, EnglishFrame, MixedFrame}

Compiled == call # <<>> /\ sent # <<>>

\* C12: a request with a cloned sample, accent Whisper and volume 0.9 is
\* dispatched in SampleConditioned mode and its directive carries the
\* hushed-whisper loudness phrase.
C12_ClonedWhisperIsHushed ==
  (/\ Compiled
   /\ call[1].clonedVoice # <<>>
   /\ call[1].accent = "Whisper"
   /\ call[1].volume = 90)
  => /\ backendMode(sent[1]) = "SampleConditioned"
     /\ HushedWhisper \in Pieces(sent[1])

\* The loudness ladder as the specification gives it.
LoudnessLadder(acc, vol) ==
  CASE acc = "Whisper" -> HushedWhisper
    [] acc # "Whisper" /\ vol >= 90 -> "loudly and powerfully"
    [] acc # "Whisper" /\ vol <= 40 -> "softly, almost in a whisper"
    [] acc # "Whisper" /\ 40 < vol /\ vol <= 60 -> "quietly"
    [] OTHER -> "at a standard volume"

\* C13: in a compiled directive the loudness phrase is the one the ladder
\* hushed whisper / loudly (>= 0.9) / almost a whisper (<= 0.4) / quietly
\* (<= 0.6) / standard gives for the accent and the volume.
C13_LoudnessLadder ==
  (Compiled /\ call[1].clonedVoice = <<>>)
  => Pieces(sent[1]) \cap LoudnessPhrases
       = {LoudnessLadder(call[1].accent, call[1].volume)}

\* The pace ladder of the specification, by intervals of the speed.
PaceLadder(sp) ==
  CASE sp <= 60 -> "very slowly"
    [] 60 < sp /\ sp <= 80 -> "slowly"
    [] 80 < sp /\ sp < 130 -> "at a normal pace"
    [] 130 <= sp /\ sp < 170 -> "quickly"
    [] 170 <= sp -> "very quickly"

StyledAccents == {"Cheerful", "Formal", "Romantic", "Podcast", "Whisper"}

StylePrefixes ==
  [Cheerful |-> "Say cheerfully: ",
   Formal |-> "Say formally: ",
   Romantic |-> "Say romantically: ",
   Podcast |-> "Say in an engaging conversational podcast style: ",
   Whisper |-> "Whisper this quietly and softly: "]

\* The frame the specification gives a language and an accent.
FrameFor(lang, acc) ==
  CASE lang = "Telugu" -> TeluguFrame
    [] lang = "English" /\ acc = "Telugu Accent" -> RegionalFrame
    [] lang = "English" /\ acc # "Telugu Accent" -> EnglishFrame
    [] lang = "English-Telugu Mixed" -> MixedFrame

\* The non-empty style prefixes a request carries.
StyleOf(req) == Pieces(req) \cap {StylePrefixes[a] : a \in StyledAccents}

C11_ModeFollowsSelection ==
  lastOp = "tts" =>
    /\ backendMode(sent[1]) = "SampleConditioned"
         <=> selectedClonedVoiceId # "null"
    /\ selectedClonedVoiceId = "null" => sent[1].voiceName = <<voice>>
    /\ selectedClonedVoiceId # "null" =>
         \E i \in DOMAIN clonedVoices :
           /\ clonedVoices[i].id = selectedClonedVoiceId
           /\ sent[1].inlineData = <<[mimeType |-> clonedVoices[i].mimeType,
                                      data |-> clonedVoices[i].audioData]>>

\* C17: every generateSpeech call issues exactly one request, however the
\* request ends, and a generateTTS call that failed dispatches nothing more.
C17_NoRetry ==
  /\ [](nRequests = nCalls)
  /\ [][lastOp' = "ttsFailed" =>
          /\ nCalls' = nCalls
          /\ nRequests' = nRequests
          /\ sent' = sent
          /\ tts' = <<>>]_vars

C17_Witness ==
  /\ lastOp = "ttsFailed"
  /\ response[1].kind = "error"
  /\ nCalls = 1
  /\ nRequests = 1

\* The no-audio messages of the two branches.
NoAudioMessages == {NoAudioData, CloneNoAudio}

\* C18: a response without an inline audio part ends the call with a
\* no-audio error: the payload number of the request is neither stored nor
\* in the history, no playback is awaited; and the text the response
\* carries, when it carries one, is the detail of the failure.
C18_NoAudioDetail ==
  (lastOp = "ttsFailed" /\ response[1].kind = "noAudio") =>
    /\ lastAudioData # nRequests
    /\ \A i \in DOMAIN history : history[i].audioData # nRequests
    /\ tts = <<>>
    /\ response[1].text = "" => failure \in NoAudioMessages
    /\ response[1].text # "" => failure = response[1].text

\* The messages of the model that carry a 403, a "permission" or an
\* entity-not-found marker.
KeyMarked == {Forbidden403, PermissionDenied, EntityNotFound}

\* C19: a failure whose message carries one of the three markers shows the
\* API-key error, asks for a key (the dialog of hasApiKey = false) and opens
\* the key selector of the host; any other failure shows its own message
\* and changes neither.
C19_KeyErrorExactly ==
  [][lastOp' = "ttsFailed" =>
       IF failure' \in KeyMarked
         THEN /\ error' = ApiKeyIssue
              /\ hasApiKey' = FALSE
              /\ aistudio => keySelector' = keySelector + 1
         ELSE /\ error' = failure'
              /\ failure' # ""
              /\ UNCHANGED <<hasApiKey, keySelector>>]_vars

C19_Witness ==
  /\ lastOp = "ttsFailed"
  /\ failure = PermissionDenied
  /\ error = ApiKeyIssue
  /\ ~hasApiKey
  /\ aistudio
  /\ keySelector = 1

\* C20: a failure of the transport (the RPC) is put in a class of its own,
\* neither the key-error class nor the class of all other failures.
C20_TransientBusyClass ==
  (lastOp = "ttsFailed" /\ failure = RpcFailed) =>
    errorClass \notin {"keyIssue", "other"}

\* ------------------------------------- the WAV download (utils/audioUtils)

\* The format pcmToWavBlob writes: 24 kHz, 16 bits, mono.
SampleRate == 24000
BitsPerSample == 16
Channels == 1

\* The lengths of the payloads tried, and how many byte patterns of each.
PcmLengths == <<0, 1, 2, 3, 255, 256, 257, 300>>
PcmPatterns == 5

\* The payload ids tried.
PcmIds == 1..(Len(PcmLengths) * PcmPatterns)

\* decodeBase64(base64): the bytes the payload d stands for.
decodeBase64(d) ==
  LET n == PcmLengths[((d - 1) % Len(PcmLengths)) + 1]
      p == (d - 1) \div Len(PcmLengths)
  IN [i \in 1..n |-> (i * (2 * p + 1) + 50 * p) % 256]

\* setUint16(offset, n, true) and setUint32(offset, n, true): little endian.
U16LE(n) == <<n % 256, (n \div 256) % 256>>
U32LE(n) ==
  <<n % 256, (n \div 256) % 256, (n \div 65536) % 256,
    (n \div 16777216) % 256>>

\* The character codes of the four tags.
TagRIFF == <<82, 73, 70, 70>>
TagWAVE == <<87, 65, 86, 69>>
TagFmt == <<102, 109, 116, 32>>
TagData == <<100, 97, 116, 97>>

\* The header of a container whose RIFF chunk size is riffSize and whose
\* payload has len bytes.
WavHeader(riffSize, len) ==
  TagRIFF \o U32LE(riffSize) \o TagWAVE
    \o TagFmt \o U32LE(16) \o U16LE(1) \o U16LE(Channels)
    \o U32LE(SampleRate)
    \o U32LE((SampleRate * Channels * BitsPerSample) \div 8)
    \o U16LE((Channels * BitsPerSample) \div 8) \o U16LE(BitsPerSample)
    \o TagData \o U32LE(len)

\* A container whose RIFF chunk size is the size of the whole file.
pcmToWavBlob_fileSize(bytes) ==
  WavHeader(44 + Len(bytes), Len(bytes)) \o bytes

\* pcmToWavBlob(bytes): the header, then the payload.
pcmToWavBlob(bytes) ==
  WavHeader(36 + Len(bytes), Len(bytes)) \o bytes

\* The frame of a download: the file is handed to downloadBlob.
OnlyDownload ==
  UNCHANGED <<audioVars, error, text, settingVars, isLoading, history,
              presets, clonedVoices, selectedClonedVoiceId, lastAudioData,
              hasApiKey, aistudio, keySelector, voicesMade, call, sent,
              nCalls, nRequests, tts, response, failure, errorClass>>

\* handleDownloadLast(): nothing without lastAudioData.
handleDownloadLast ==
  /\ download' = IF lastAudioData = 0 THEN download
                 ELSE pcmToWavBlob(decodeBase64(lastAudioData))
  /\ Did("downloadLast")
  /\ OnlyDownload

\* HistoryList.handleDownload(item), for the i-th item: nothing without
\* item.audioData.
handleDownload(i) ==
  /\ i \in DOMAIN history
  /\ download' = IF history[i].audioData = 0 THEN download
                 ELSE pcmToWavBlob(decodeBase64(history[i].audioData))
  /\ Did("download")
  /\ OnlyDownload

\* A synthesis has produced the payload d: it is lastAudioData and the
\* audio of the one history item.
InitWav ==
  /\ InitPlayback
  /\ InitSettings
  /\ InitService
  /\ InitHost
  /\ \E d \in PcmIds :
       /\ lastAudioData = d
       /\ history = <<[text |-> "hi", voice |-> "Kore", isCloned |-> FALSE,
                       audioData |-> d]>>

NextWav ==
  \/ handleDownloadLast
  \/ \E i \in 1..1 : handleDownload(i)

SpecWav == InitWav /\ [][NextWav]_vars

\* ------------------------------------- claims on playback, continued
\* These are read in Spec.

\* C26: while the status is playing or paused the current handle exists,
\* has been started and has neither been stopped nor ended.  The formula
\* leaves out the states in which a handlePlayAudio call is replacing the
\* handle.
C26_ActiveStatusHasLiveHandle ==
  (playbackStatus \in {"playing", "paused"} /\ PendingPlays = 0) =>
    /\ activeSourceRef # NoHandle
    /\ src[activeSourceRef] = "started"

\* C27: once a later play has installed its handle, the "ended" event of an
\* earlier handle neither sets the status nor clears the handle reference.
C27_SupersededHandleIsSilent ==
  [][\A h \in Handles :
       (/\ src[h] # "ended"
        /\ src'[h] = "ended"
        /\ activeSourceRef \in Handles
        /\ activeSourceRef > h)
       => UNCHANGED <<playbackStatus, activeSourceRef>>]_vars

\* ------------------------------------------------ playback, with progress

\* The steps the user takes: Play on an item, Pause/Resume, Stop.
UserStep ==
  \/ \E throws \in BOOLEAN, s0 \in {"running", "suspended"} :
       handlePlayAudio(throws, s0)
  \/ togglePauseResume
  \/ \E threw \in BOOLEAN : stopPlayback(threw)

\* Promises settle, the running context's clock advances and the events of
\* its sources are delivered: the event loop and an output device that
\* keeps running.
Progress ==
  /\ WF_vars(initAudio_resumed /\ UNCHANGED appVars)
  /\ WF_vars((\E throws \in BOOLEAN : handlePlayAudio_resumed(throws))
               /\ UNCHANGED appVars)
  /\ WF_vars((\E prev \in 0..MaxHandles, fails \in BOOLEAN :
                handlePlayAudio_decoded(prev, fails)) /\ UNCHANGED appVars)
  /\ WF_vars(togglePauseResume_suspended /\ UNCHANGED appVars)
  /\ WF_vars(togglePauseResume_resumed /\ UNCHANGED appVars)
  /\ WF_vars(Tick /\ UNCHANGED appVars)
  /\ WF_vars((\E h \in Handles : SourceEnded(h)) /\ UNCHANGED appVars)
  /\ WF_vars((\E h \in Handles : SourceStopped(h)) /\ UNCHANGED appVars)

SpecLive == Init /\ [][Next]_vars /\ Progress

\* C28: when the user issues nothing more, a status that is playing does
\* not stay: the end of the stream is delivered and the status becomes
\* stopped.
C28_PlayingEndsStopped ==
  (<>[][~UserStep]_vars /\ []<>(playbackStatus = "playing"))
    => []<>(playbackStatus = "stopped")

\* ------------------------------------------ claims on voices and presets

\* C25: the selected cloned voice is null or the id of a voice of the list.
\* This is read in SpecPresets.
C25_SelectionIsListed == selectedClonedVoiceId \in VoiceIds \cup {"null"}

\* ------------------------------------------------- claims on generateTTS

\* C22: while a generateTTS call is in flight isLoading is set and the
\* Speak button, the one caller of generateTTS, is disabled, whatever the
\* user has done since.  This is read in SpecTTS.
C22_OneSynthesisInFlight ==
  tts # <<>> => isLoading /\ ~SpeakEnabled

C22_Witness ==
  /\ tts # <<>>
  /\ tts[1].at = "handlePlayAudio"
  /\ Trim(text) # ""
  /\ lastOp = "settings"

\* C23: a generateTTS call with empty or blank text sets the error message,
\* sends nothing to the backend and leaves isLoading, the history,
\* lastAudioData and the playback status as they were.  This is read in
\* SpecCall.
C23_NoTextOnlyReports ==
  [][(Trim(text) = "" /\ lastOp' = "ttsNoText") =>
       /\ error' = EnterText
       /\ UNCHANGED <<isLoading, history, lastAudioData, playbackStatus,
                      sent, nRequests, nCalls, tts>>]_vars

C23_Witness ==
  /\ lastOp = "ttsNoText"
  /\ text = " "
  /\ error = EnterText
  /\ ~isLoading
  /\ lastAudioData # 0

\* ------------------------------------------------- claims on the history
\* These are read in SpecHistory.

\* a is b with some items left out.
RECURSIVE IsSubSeq(_, _)
IsSubSeq(a, b) ==
  IF a = <<>> THEN TRUE
  ELSE IF b = <<>> THEN FALSE
  ELSE IF Head(a) = Head(b) THEN IsSubSeq(Tail(a), Tail(b))
  ELSE IsSubSeq(a, Tail(b))

\* The generateSpeech call of generateTTS settles, with audio or not.
Settles(withAudio) ==
  /\ response = <<>>
  /\ response' # <<>>
  /\ (response'[1].kind = "audio") = withAudio

\* What a step does to the history: a successful synthesis puts its item
\* first, keeps the order of the others and drops what lies beyond the
\* 20th; a failed synthesis leaves the history as it is; delete and clear
\* only take items away; no other step changes it.
HistoryStep ==
  /\ Settles(TRUE) =>
       /\ Len(history') = IF Len(history) < HistoryCap
                            THEN Len(history) + 1 ELSE HistoryCap
       /\ history'[1].audioData = lastAudioData'
       /\ history'[1].audioData \notin
            {history[i].audioData : i \in DOMAIN history}
       /\ \A i \in 2..Len(history') : history'[i] = history[i - 1]
  /\ Settles(FALSE) => history' = history
  /\ lastOp' \in {"historyDelete", "historyClear"} =>
       IsSubSeq(history', history)
  /\ history' # history =>
       \/ Settles(TRUE)
       \/ lastOp' \in {"historyDelete", "historyClear"}

\* C29: the history never holds more than 20 items, and every step treats
\* it as HistoryStep says.
C29_HistoryBounded ==
  /\ [](Len(history) <= HistoryCap)
  /\ [][HistoryStep]_vars

C29_Witness ==
  /\ Len(history) = HistoryCap
  /\ lastAudioData # 0
  /\ history[1].audioData = lastAudioData
  /\ history[HistoryCap] = StoredItem(HistoryCap - 1)

\* ------------------------------------- synthesis and playback, with progress

\* The page is opened in a host without window.aistudio, with one stored
\* history item.
InitIdle ==
  /\ InitPlayback
  /\ InitSettings
  /\ InitService
  /\ InitHost
  /\ history = StoredHistory(1)
  /\ lastAudioData = 0

\* Play on a history item: onPlay={(item) => item.audioData &&
\* handlePlayAudio(item.audioData)}.
onPlay ==
  /\ history # <<>>
  /\ \E throws \in BOOLEAN, s0 \in {"running", "suspended"} :
       handlePlayAudio(throws, s0)
  /\ UNCHANGED appVars

\* The steps the user takes here.  The user plays a history item only
\* while no generateTTS call is in progress and presses Speak only when no
\* handlePlayAudio call is suspended, so that a suspended handlePlayAudio
\* call is either the one generateTTS awaits or one started from the
\* history list.
UserIdle ==
  \/ setText("hi")
  \/ tts = <<>> /\ onPlay
  \/ togglePauseResume /\ UNCHANGED appVars
  \/ (\E threw \in BOOLEAN : stopPlayback(threw)) /\ UNCHANGED appVars
  \/ SpeakEnabled /\ PendingPlays = 0 /\ generateTTS

\* A handlePlayAudio call started from the history list goes on.
onPlay_continued ==
  /\ tts = <<>>
  /\ \/ \E throws \in BOOLEAN : handlePlayAudio_resumed(throws)
     \/ \E prev \in 0..MaxHandles, fails \in BOOLEAN :
          handlePlayAudio_decoded(prev, fails)
  /\ UNCHANGED appVars

generateTTS_settled ==
  \E resp \in Responses, throws \in BOOLEAN, s0 \in {"running", "suspended"} :
    generateTTS_response(resp, throws, s0)

NextIdle ==
  \/ UserIdle
  \/ onPlay_continued
  \/ generateTTS_settled
  \/ generateTTS_played
  \/ initAudio_resumed /\ UNCHANGED appVars
  \/ togglePauseResume_suspended /\ UNCHANGED appVars
  \/ togglePauseResume_resumed /\ UNCHANGED appVars
  \/ Tick /\ UNCHANGED appVars
  \/ (\E h \in Handles : SourceEnded(h)) /\ UNCHANGED appVars
  \/ (\E h \in Handles : SourceStopped(h)) /\ UNCHANGED appVars

\* Promises settle (the speech service answers), the running context's
\* clock advances and the events of its sources are delivered.
ProgressIdle ==
  /\ WF_vars(onPlay_continued)
  /\ WF_vars(generateTTS_settled)
  /\ WF_vars(generateTTS_played)
  /\ WF_vars(initAudio_resumed /\ UNCHANGED appVars)
  /\ WF_vars(togglePauseResume_suspended /\ UNCHANGED appVars)
  /\ WF_vars(togglePauseResume_resumed /\ UNCHANGED appVars)
  /\ WF_vars(Tick /\ UNCHANGED appVars)
  /\ WF_vars((\E h \in Handles : SourceEnded(h)) /\ UNCHANGED appVars)
  /\ WF_vars((\E h \in Handles : SourceStopped(h)) /\ UNCHANGED appVars)

SpecIdle == InitIdle /\ [][NextIdle]_vars /\ ProgressIdle

\* The last synthesis attempt has failed: generateSpeech was rejected or
\* gave no audio, or the playback of its audio failed.
AttemptFailed ==
  /\ nCalls > 0
  /\ tts = <<>>
  /\ errorClass # "none" \/ error = PlaybackFailed

\* C21: when the last synthesis attempt has failed and the user does
\* nothing more, the system comes to rest idle: isLoading false and the
\* playback status stopped.
C21_FailureLeavesIdle ==
  (<>[][~UserIdle]_vars /\ <>[]AttemptFailed)
    => <>[](~isLoading /\ playbackStatus = "stopped")

\* ------------------------------------------------------ claims on presets
\* These are read in SpecSettings.

\* The voice selection in effect: a cloned voice by its id, or a prebuilt
\* voice by its name.
Selection ==
  IF selectedClonedVoiceId # "null"
    THEN <<"cloned", selectedClonedVoiceId>>
    ELSE <<"prebuilt", voice>>

\* The voice selection a preset stands for.
PresetSelection(p) ==
  IF StartsWithCloned(p.voice) THEN <<"cloned", p.voice>>
                               ELSE <<"prebuilt", p.voice>>

Current == <<language, accent, Selection, speed, pitch, volume>>

Saved(p) ==
  <<p.language, p.accent, PresetSelection(p), p.speed, p.pitch, p.volume>>

\* A save appends a preset that stands for the settings in effect; a preset
\* in the list is never rewritten; a load puts the settings the preset
\* stands for in effect, and clears the cloned selection when the preset
\* names a prebuilt voice.
RoundTripStep ==
  /\ Len(presets') = Len(presets) + 1 =>
       /\ Saved(presets'[Len(presets')]) = Current
       /\ SubSeq(presets', 1, Len(presets)) = presets
  /\ Len(presets') <= Len(presets) =>
       \A i \in DOMAIN presets' :
         \E j \in DOMAIN presets : presets'[i] = presets[j]
  /\ \A i \in DOMAIN presets :
       loadPreset(i) =>
         /\ Current' = Saved(presets[i])
         /\ PresetSelection(presets[i])[1] = "prebuilt" =>
              selectedClonedVoiceId' = "null"

\* C30: saving a preset and loading it later restores language, accent, the
\* voice selection in effect, speed, pitch and volume, whatever was changed
\* in between; loading a preset of a prebuilt voice clears the cloned
\* selection.
C30_PresetRoundTrip == [][RoundTripStep]_vars

\* A preset of a cloned voice has been loaded after the voice was deleted.
C30_Witness ==
  /\ presets # <<>>
  /\ Current = Saved(presets[1])
  /\ Selection[1] = "cloned"
  /\ selectedClonedVoiceId \notin VoiceIds
  /\ speed = 150

\* ------------------------------------------ claims on the WAV container
\* These are read in SpecWav.

\* The unsigned 32-bit little-endian number at offset k (counted from 1).
U32At(b, k) ==
  b[k] + 256 * b[k + 1] + 65536 * b[k + 2] + 16777216 * b[k + 3]

\* C24: the file pcmToWavBlob makes of a payload is a 44-byte header whose
\* RIFF chunk size is 36 + the payload length and whose data chunk size is
\* the payload length, followed by the payload byte for byte.
C24_WavContainer ==
  download # <<>> =>
    LET bytes == decodeBase64(lastAudioData)
    IN /\ Len(download) = 44 + Len(bytes)
       /\ SubSeq(download, 1, 4) = TagRIFF
       /\ U32At(download, 5) = 36 + Len(bytes)
       /\ SubSeq(download, 37, 40) = TagData
       /\ U32At(download, 41) = Len(bytes)
       /\ SubSeq(download, 45, Len(download)) = bytes

C24_Witness ==
  /\ lastOp = "downloadLast"
  /\ Len(decodeBase64(lastAudioData)) = 300
  /\ Len(download) = 344
  /\ download[5] = 80
  /\ download[6] = 1

====
